---- MODULE Spec2Model ----
(***************************************************************************)
(* A model of the grokker chunk store (package grokker): documents, chunks *)
(* with their embeddings, incremental update, garbage collection, batched  *)
(* embedding requests and the context assembly of Answer.                  *)
(*                                                                         *)
(* A text is a sequence of one-character strings.  The file system and the *)
(* remote embedding provider are the environment: files are written,       *)
(* deleted and touched by environment actions, and a call may be given one *)
(* fault (an I/O error or a failing embedding request).                    *)
(***************************************************************************)
EXTENDS Integers, Sequences, FiniteSets, TLC

VARIABLES
    Documents,      \* g.Documents: sequence of document paths
    Chunks,         \* g.Chunks: sequence of [Document, Text, Embedding]
    MaxChunkSize,   \* g.MaxChunkSize
    files,          \* the file system: path -> text, or NoFile
    modified,       \* path -> file mtime is after the store file's mtime
    synced,         \* path -> text at the last successful UpdateDocument whose
                    \*         chunks have not been collected since, or NoFile
    removedSinceGC, \* a document was removed and GC has not run since
    straySinceGC,   \* UpdateDocument ran on an unregistered document, no GC since
    writes,         \* number of environment steps taken so far
    last,           \* what the most recent step did (its observable outcome)
    aidda,          \* the run of aidda.Do: its argument list, the position of
                    \* its loop, the files it looks at and what it has done
    changes,        \* a call of aidda.getChanges: where its two goroutines
                    \* are and what they have printed
    loop            \* a call of chunkStrings taken one iteration at a time:
                    \* its position, its paragraphs and its result so far

vars == <<Documents, Chunks, MaxChunkSize, files, modified, synced,
          removedSinceGC, straySinceGC, writes, last, aidda, changes, loop>>

----------------------------------------------------------------------------
(* Bounds of the model *)

\* environment steps (file writes, deletions, saves) in one behaviour
MaxWrites == 1
\* environment steps in one behaviour of SpecUE
MaxUEWrites == 2
\* longest list of texts CreateEmbeddings is called on in SpecCE
MaxTexts == 250
\* highest request number the provider is made to fail at in SpecCE
MaxFail == 3
\* length of the long paragraphs of the store Answer is asked about
LongParagraph == 4000
\* paragraphs of the longest document of SpecBatch
MaxParagraphs == 201
\* loads of the store file in one behaviour of SpecSave
MaxLoads == 1
\* largest K FindChunks is called with
MaxK == 4
\* largest MaxChunkSize a store is created with in the model
MaxChunk == 2
\* SpecChunk: texts of up to MaxTextLen characters, MaxChunkSize up to MaxSize
MaxTextLen == 7
MaxSize == 3
\* SpecSim: vectors with components up to MaxComponent
MaxComponent == 2
\* SpecAidda: up to MaxArgs subcommands, up to MaxOut output files
MaxArgs == 3
MaxOut == 2
\* SpecDots: dots are counted up to MaxDots
MaxDots == 8
\* SpecSlice: length of the document texts, and the segments that are kept
\* of a result (a longer result keeps growing in the code)
MaxSliceText == 4
MaxSegments == 5

(* Program constants *)

\* CreateEmbeddings: "only send 100 chunks at a time"
BatchSize == 100
\* New: MaxChunkSize is 4096 * 4.0
DefaultMaxChunkSize == 16384
\* len(promptTmpl): "{{.Question}}\n\nContext:\n{{.Context}}"
PromptTmplLen == 36

NL == "\n"
\* the content of a file that does not exist (no text: texts hold single characters)
NoFile == <<"ENOENT">>
None == "None"

Paths == {"p1", "p2", "p3"}

\* the documents the operations of Spec are called on
CorePaths == {"p1", "p2"}

\* The texts files may hold.  p1 takes every shape the update logic
\* distinguishes (one paragraph, two paragraphs, a repeated paragraph, the
\* paragraphs reordered); the other files are only created, touched or
\* deleted.
DocTexts(p) ==
    IF p = "p1"
    THEN { <<"a">>,
           <<"a", NL, NL, "b">>,
           <<"a", NL, NL, "a">>,
           <<"b", NL, NL, "a">> }
    ELSE { <<"a">> }

----------------------------------------------------------------------------
(* Sequence helpers *)

Range(s) == { s[i] : i \in 1..Len(s) }

RemoveAt(s, i) == SubSeq(s, 1, i - 1) \o SubSeq(s, i + 1, Len(s))

\* smallest index of s whose element satisfies Test, 0 when there is none
FirstIndex(s, Test(_)) ==
    IF \E i \in 1..Len(s) : Test(s[i])
    THEN CHOOSE i \in 1..Len(s) :
            Test(s[i]) /\ \A j \in 1..(i - 1) : ~Test(s[j])
    ELSE 0

\* the sequences ss[lo..hi] concatenated, by halves
RECURSIVE FlattenRange(_, _, _)
FlattenRange(ss, lo, hi) ==
    IF lo > hi THEN <<>>
    ELSE IF lo = hi THEN ss[lo]
    ELSE LET mid == (lo + hi) \div 2
         IN  FlattenRange(ss, lo, mid) \o FlattenRange(ss, mid + 1, hi)

Flatten(ss) == FlattenRange(ss, 1, Len(ss))

----------------------------------------------------------------------------
(* The chunker *)

\* strings.Split(txt, "\n\n") cuts at each non-overlapping "\n\n", found
\* left to right.  One step of that scan: st.done are the paragraphs cut so
\* far, st.cur is the paragraph being read, and st.nl tells that a newline
\* is held back as the possible first half of a separator.
SplitStep(st, c) ==
    IF st.nl
    THEN IF c = NL
         THEN [done |-> Append(st.done, st.cur), cur |-> <<>>, nl |-> FALSE]
         ELSE [st EXCEPT !.cur = st.cur \o <<NL, c>>, !.nl = FALSE]
    ELSE IF c = NL
         THEN [st EXCEPT !.nl = TRUE]
         ELSE [st EXCEPT !.cur = Append(st.cur, c)]

\* the scan over txt[lo..hi] from state st, by halves: the state after the
\* first half is the state the second half starts from
RECURSIVE SplitScan(_, _, _, _)
SplitScan(txt, lo, hi, st) ==
    IF lo > hi THEN st
    ELSE IF lo = hi THEN SplitStep(st, txt[lo])
    ELSE LET mid == (lo + hi) \div 2
         IN  CHOOSE r \in { SplitScan(txt, mid + 1, hi, half) :
                              half \in {SplitScan(txt, lo, mid, st)} } : TRUE

SplitParagraphs(txt) ==
    LET st == SplitScan(txt, 1, Len(txt),
                        [done |-> <<>>, cur |-> <<>>, nl |-> FALSE])
    IN  Append(st.done, IF st.nl THEN Append(st.cur, NL) ELSE st.cur)

\* the inner loop of chunkStrings: cut one paragraph into slices of max bytes
\* a paragraph kept whole, whatever its length
SliceParagraphWhole(paragraph, max) ==
    IF Len(paragraph) = 0 THEN <<>> ELSE <<paragraph>>

\* a paragraph of which only the first MaxChunkSize characters are kept
SliceParagraphDropsRest(paragraph, max) ==
    IF Len(paragraph) = 0 THEN <<>>
    ELSE IF Len(paragraph) > max THEN <<SubSeq(paragraph, 1, max)>>
    ELSE <<paragraph>>

RECURSIVE SliceParagraph(_, _)
SliceParagraph(paragraph, max) ==
    IF Len(paragraph) = 0
    THEN <<>>
    ELSE IF Len(paragraph) > max
         THEN <<SubSeq(paragraph, 1, max)>>
                  \o SliceParagraph(SubSeq(paragraph, max + 1, Len(paragraph)), max)
         ELSE <<paragraph>>

\* chunkStrings, given the text read from the document's file
chunkStrings(txt, max) ==
    LET paragraphs == SplitParagraphs(txt)
    IN  Flatten([i \in 1..Len(paragraphs) |-> SliceParagraph(paragraphs[i], max)])

\* a text of n characters ch
Rep(ch, n) == [i \in 1..n |-> ch]

\* paragraphs joined into a text, a blank line between two
Join(paragraphs) ==
    Flatten([i \in 1..Len(paragraphs) |->
                IF i = 1 THEN paragraphs[i] ELSE <<NL, NL>> \o paragraphs[i]])

----------------------------------------------------------------------------
(* The embedding client *)

Count(txt, ch) == Cardinality({ i \in 1..Len(txt) : txt[i] = ch })

\* The provider's vector for one text: the same text always gets the same
\* vector; an all-separator text gets the zero vector.
Embed(txt) == <<Count(txt, "a"), Count(txt, "b"), Count(txt, "c")>>

\* The provider's answer to one request: one vector per input, in order.
ProviderEmbeddings(input) == [k \in 1..Len(input) |-> Embed(input[k])]

Min(a, b) == IF a < b THEN a ELSE b

\* The loop of CreateEmbeddings from offset i (0-based, as in the code).
\* failAt is the number of the request the provider fails (0: none); a
\* failing request panics out of the loop, so no vectors are returned.
RECURSIVE CreateEmbeddingsFrom(_, _, _, _, _)
CreateEmbeddingsFrom(texts, i, requests, embeddings, failAt) ==
    IF i >= Len(texts)
    THEN [requests |-> requests, embeddings |-> embeddings, err |-> FALSE]
    ELSE LET end == Min(i + BatchSize, Len(texts))
             input == SubSeq(texts, i + 1, end)
             reqs == Append(requests, input)
         IN  IF Len(reqs) = failAt
             THEN [requests |-> reqs, embeddings |-> <<>>, err |-> TRUE]
             ELSE CreateEmbeddingsFrom(texts, i + BatchSize, reqs,
                      embeddings \o ProviderEmbeddings(input), failAt)

\* CreateEmbeddings without the batching loop: one request for everything
CreateEmbeddingsOneRequest(texts, failAt) ==
    IF texts = <<>>
    THEN [requests |-> <<>>, embeddings |-> <<>>, err |-> FALSE]
    ELSE IF failAt = 1
         THEN [requests |-> <<texts>>, embeddings |-> <<>>, err |-> TRUE]
         ELSE [requests |-> <<texts>>, embeddings |-> ProviderEmbeddings(texts),
               err |-> FALSE]

CreateEmbeddings(texts, failAt) ==
    CreateEmbeddingsFrom(texts, 0, <<>>, <<>>, failAt)

----------------------------------------------------------------------------
(* Faults the environment may inject into one call *)

NoFault == [kind |-> "none", path |-> None, at |-> 0]
IOFault(p) == [kind |-> "io", path |-> p, at |-> 0]
\* the provider fails request number n of the embedding of p's segments
EmbedFaultAt(p, n) == [kind |-> "embed", path |-> p, at |-> n]
EmbedFault(p) == EmbedFaultAt(p, 1)
\* the request CreateEmbeddings fails at under fault when called for doc
FailAt(fault, doc) ==
    IF fault.kind = "embed" /\ fault.path = doc THEN fault.at ELSE 0
\* the faults that can reach a call working on the one document p
FaultsOn(p) == {NoFault, IOFault(p), EmbedFault(p)}
\* the faults that can reach a call working on the documents in P
Faults(P) == {NoFault} \cup { IOFault(p) : p \in P } \cup { EmbedFault(p) : p \in P }

----------------------------------------------------------------------------
(* The chunk store *)

\* RemoveDocument with the cut append(docs[:i], docs[i:]...): nothing leaves
RemoveDocumentKeepsAll(arr, len, doc) == [arr |-> arr, len |-> len]

\* RemoveDocument on the backing array of g.Documents, whose first len
\* elements are the slice: append(docs[:i], docs[i+1:]...) shifts the tail
\* left in place and shortens the slice; the slot past the new end keeps its
\* old content.
RemoveDocumentInPlace(arr, len, doc) ==
    LET i == FirstIndex(SubSeq(arr, 1, len), LAMBDA d : d = doc)
    IN  IF i = 0
        THEN [arr |-> arr, len |-> len]
        ELSE [arr |-> [k \in 1..Len(arr) |->
                          IF k >= i /\ k < len THEN arr[k + 1] ELSE arr[k]],
              len |-> len - 1]

\* RemoveDocument that cuts the document list at the document: docs[:i]
RemoveDocumentAndRest(docs, doc) ==
    LET i == FirstIndex(docs, LAMBDA d : d = doc)
    IN  IF i = 0 THEN docs ELSE SubSeq(docs, 1, i - 1)

\* g.Documents after RemoveDocument(doc)
RemoveDocumentFrom(docs, doc) ==
    LET r == RemoveDocumentInPlace(docs, Len(docs), doc)
    IN  SubSeq(r.arr, 1, r.len)

\* GC that takes every chunk for referenced
GCKeepsAll(docs, chunks) == chunks

\* g.Chunks after GC
GCChunks(docs, chunks) ==
    SelectSeq(chunks, LAMBDA c : c.Document \in Range(docs))

\* the existing chunks of a document, in store order
OldChunks(chunks, doc) == SelectSeq(chunks, LAMBDA c : c.Document = doc)

\* One round of the diff loop of UpdateDocument: a candidate that finds an
\* old chunk with its text takes that chunk out of oldChunks; one that finds
\* none is new.
DiffStep(st, chunkString) ==
    LET i == FirstIndex(st.oldChunks, LAMBDA c : c.Text = chunkString)
    IN  IF i = 0
        THEN [st EXCEPT !.newChunkStrings = Append(st.newChunkStrings, chunkString)]
        ELSE [st EXCEPT !.oldChunks = RemoveAt(st.oldChunks, i)]

\* the diff loop over cands[lo..hi] from state st, by halves: the state
\* after the first half is the state the second half starts from
RECURSIVE DiffLoop(_, _, _, _)
DiffLoop(cands, lo, hi, st) ==
    IF lo > hi THEN st
    ELSE IF lo = hi THEN DiffStep(st, cands[lo])
    ELSE LET mid == (lo + hi) \div 2
         IN  CHOOSE r \in { DiffLoop(cands, mid + 1, hi, half) :
                              half \in {DiffLoop(cands, lo, mid, st)} } : TRUE

\* the diff with a comparison that never finds the old chunk
NewChunkStringsAllNew(oldChunks, cands) == cands

\* the diff by position: segment i is new unless old chunk i has its text
NewChunkStringsByPosition(oldChunks, cands) ==
    LET new == SelectSeq([i \in 1..Len(cands) |-> <<i, cands[i]>>],
                         LAMBDA e : \/ e[1] > Len(oldChunks)
                                    \/ oldChunks[e[1]].Text # e[2])
    IN  [k \in 1..Len(new) |-> new[k][2]]

\* UpdateDocument's newChunkStrings after the diff loop
NewChunkStrings(oldChunks, cands) ==
    DiffLoop(cands, 1, Len(cands),
             [oldChunks |-> oldChunks, newChunkStrings |-> <<>>]).newChunkStrings

\* UpdateDocument that appends the chunks of the requests answered before
\* the failing one
UpdateDocumentCommitsBatches(chunks, doc, fault) ==
    IF files[doc] = NoFile \/ fault = IOFault(doc)
    THEN [chunks |-> chunks, updated |-> FALSE, err |-> TRUE, sent |-> <<>>,
          failed |-> FALSE]
    ELSE LET cands == chunkStrings(files[doc], MaxChunkSize)
             new == NewChunkStrings(OldChunks(chunks, doc), cands)
             ce == CreateEmbeddings(new, FailAt(fault, doc))
             done == IF ce.err
                     THEN SubSeq(new, 1, (Len(ce.requests) - 1) * BatchSize)
                     ELSE new
         IN  [chunks |-> chunks \o [i \in 1..Len(done) |-> 
                                       [Document |-> doc, Text |-> done[i],
                                        Embedding |-> Embed(done[i])]],
              updated |-> new # <<>>, err |-> ce.err, sent |-> ce.requests,
              failed |-> ce.err]

\* UpdateDocument(doc) on the chunk list chunks: the new chunk list, the
\* results, the requests sent to the provider and whether one of them
\* failed.
UpdateDocumentResult(chunks, doc, fault) ==
    IF files[doc] = NoFile \/ fault = IOFault(doc)
    THEN [chunks |-> chunks, updated |-> FALSE, err |-> TRUE, sent |-> <<>>,
          failed |-> FALSE]
    ELSE LET cands == chunkStrings(files[doc], MaxChunkSize)
             new == NewChunkStrings(OldChunks(chunks, doc), cands)
             ce == CreateEmbeddings(new, FailAt(fault, doc))
         IN  IF ce.err
             THEN [chunks |-> chunks, updated |-> new # <<>>, err |-> TRUE,
                   sent |-> ce.requests, failed |-> TRUE]
             ELSE [chunks |-> chunks \o
                        [i \in 1..Len(new) |->
                            [Document |-> doc, Text |-> new[i],
                             Embedding |-> ce.embeddings[i]]],
                   updated |-> new # <<>>, err |-> FALSE, sent |-> ce.requests,
                   failed |-> FALSE]

\* the path of the store file, whose mtime is the time of the last update
GrokFn == "grokfn"

\* os.Stat(p) under a fault
Stat(p, fault) ==
    IF fault = IOFault(p) THEN "error"
    ELSE IF files[p] = NoFile THEN "notexist" ELSE "ok"

\* a modification test that takes every file for newer than the store file
ModifiedAlways(doc) == TRUE

\* fi.ModTime().After(lastUpdate): the file of doc was written after the
\* store file
ModifiedAfter(doc) == modified[doc]

\* The loop of UpdateEmbeddings.  The range statement reads the slice header
\* once: it visits the n slots of the backing array that the slice had at the
\* start, and reads slot i when it gets there, after any RemoveDocument of an
\* earlier iteration has shifted the array.
\* st: arr, len (g.Documents), chunks (g.Chunks), update, err, the documents
\* passed to UpdateDocument (calls), those it succeeded on (ok), the
\* requests sent, and whether a document was removed.
RECURSIVE UpdateEmbeddingsLoop(_, _, _, _)
UpdateEmbeddingsLoop(i, n, st, fault) ==
    IF i > n
    THEN st
    ELSE LET doc == st.arr[i]
             stat == Stat(doc, fault)
         IN  IF stat = "notexist"
             THEN LET r == RemoveDocumentInPlace(st.arr, st.len, doc)
                  IN  UpdateEmbeddingsLoop(i + 1, n,
                          [st EXCEPT !.arr = r.arr, !.len = r.len,
                                     !.update = TRUE,
                                     !.removed = @ \/ r.len < st.len],
                          fault)
             ELSE IF stat = "error"
             THEN [st EXCEPT !.err = TRUE]
             ELSE IF ModifiedAfter(doc)
             THEN LET r == UpdateDocumentResult(st.chunks, doc, fault)
                               st2 == [st EXCEPT !.calls = Append(@, doc),
                                        !.sent = @ \o r.sent]
                  IN  IF r.err
                      THEN [st2 EXCEPT !.err = TRUE]
                      ELSE UpdateEmbeddingsLoop(i + 1, n,
                              [st2 EXCEPT !.chunks = r.chunks,
                                          !.ok = @ \cup {doc},
                                          !.update = @ \/ r.updated],
                              fault)
             ELSE UpdateEmbeddingsLoop(i + 1, n, st, fault)

\* UpdateEmbeddings(grokfn): stat the store file, run the loop, then GC
\* (an error leaves before the GC).
UpdateEmbeddingsResult(docs, chunks, fault) ==
    LET st0 == [arr |-> docs, len |-> Len(docs), chunks |-> chunks,
                update |-> FALSE, err |-> FALSE, calls |-> <<>>, ok |-> {},
                sent |-> <<>>, removed |-> FALSE, gc |-> FALSE, collected |-> 0]
    IN  IF fault = IOFault(GrokFn)
        THEN [st0 EXCEPT !.err = TRUE]
        ELSE LET st == UpdateEmbeddingsLoop(1, Len(docs), st0, fault)
             IN  IF st.err
                 THEN st
                 ELSE LET kept == GCChunks(SubSeq(st.arr, 1, st.len), st.chunks)
                      IN  [st EXCEPT !.chunks = kept, !.gc = TRUE,
                                     !.collected = Len(st.chunks) - Len(kept)]

\* The loop of RefreshEmbeddings: UpdateDocument on every document.
RECURSIVE RefreshEmbeddingsLoop(_, _, _, _)
RefreshEmbeddingsLoop(i, docs, st, fault) ==
    IF i > Len(docs)
    THEN st
    ELSE LET r == UpdateDocumentResult(st.chunks, docs[i], fault)
             st2 == [st EXCEPT !.calls = Append(@, docs[i]), !.sent = @ \o r.sent]
         IN  IF r.err
             THEN [st2 EXCEPT !.err = TRUE]
             ELSE RefreshEmbeddingsLoop(i + 1, docs,
                      [st2 EXCEPT !.chunks = r.chunks, !.ok = @ \cup {docs[i]}],
                      fault)

RefreshEmbeddingsResult(docs, chunks, fault) ==
    LET st0 == [chunks |-> chunks, err |-> FALSE, calls |-> <<>>, ok |-> {},
                sent |-> <<>>, gc |-> FALSE, collected |-> 0]
        st == RefreshEmbeddingsLoop(1, docs, st0, fault)
    IN  IF st.err
        THEN st
        ELSE LET kept == GCChunks(docs, st.chunks)
             IN  [st EXCEPT !.chunks = kept, !.gc = TRUE,
                            !.collected = Len(st.chunks) - Len(kept)]

----------------------------------------------------------------------------
(* The store file: encoding/json *)

\* Bytes of texts that are not ASCII: the two bytes of the character
\* U+00E9 in UTF-8, the byte of that character in Latin-1 (no UTF-8 text
\* of the model holds it in a valid place), and the three bytes of U+FFFD.
Lead == "C3"
Cont == "A9"
Latin1 == "E9"
ReplacementChar == <<"EF", "BF", "BD">>

\* json.Marshal of a Go string: "coerced to valid UTF-8, replacing invalid
\* bytes with the Unicode replacement rune"; json.Unmarshal gives back the
\* bytes of the coerced string.
RECURSIVE ToValidUTF8(_)
ToValidUTF8(s) ==
    IF s = <<>>
    THEN <<>>
    ELSE IF Len(s) >= 2 /\ SubSeq(s, 1, 2) = <<Lead, Cont>>
    THEN <<Lead, Cont>> \o ToValidUTF8(SubSeq(s, 3, Len(s)))
    ELSE IF Len(s) >= 3 /\ SubSeq(s, 1, 3) = ReplacementChar
    THEN ReplacementChar \o ToValidUTF8(SubSeq(s, 4, Len(s)))
    ELSE IF s[1] \in {Lead, Cont, Latin1, "EF", "BF", "BD"}
    THEN ReplacementChar \o ToValidUTF8(Tail(s))
    ELSE <<s[1]>> \o ToValidUTF8(Tail(s))

\* json.Marshal(g): the exported fields; vectors and sizes are numbers that
\* are written and read back exactly
Marshal(docs, chunks, max) ==
    [Documents |-> docs,
     Chunks |-> [i \in 1..Len(chunks) |->
                    [chunks[i] EXCEPT !.Text = ToValidUTF8(chunks[i].Text)]],
     MaxChunkSize |-> max]

----------------------------------------------------------------------------
(* What a step leaves in last, and the history variables *)

NoPrev == [op |-> None, doc |-> None]

\* What GC keeps of the step before it: a RemoveDocument, or an
\* UpdateDocument that returned no error, and its document.
PrevOf(l) ==
    IF l.op = "RemoveDocument" \/ (l.op = "UpdateDocument" /\ ~l.err)
    THEN [op |-> l.op, doc |-> l.doc]
    ELSE NoPrev

\* no run of aidda.Do
NoRun == [status |-> "none"]

\* no call of aidda.getChanges
NoCall == [main |-> "none"]

\* no call of chunkStrings that is looked at step by step
NoLoop == [pc |-> "none"]

\* the outcome of a step that calls nothing and returns nothing
Outcome(op, doc) ==
    [op |-> op, doc |-> doc, err |-> FALSE, updated |-> FALSE, sent |-> <<>>,
     calls |-> <<>>, unchanged |-> FALSE, prev |-> NoPrev, collected |-> 0,
     input |-> <<>>, result |-> <<>>, ranked |-> <<>>, context |-> <<>>,
     chats |-> <<>>, resp |-> <<>>, query |-> <<>>, K |-> 0, all |-> <<>>,
     data |-> <<>>, found |-> FALSE, failed |-> FALSE, global |-> FALSE,
     first |-> <<>>, embedFail |-> FALSE, chatFail |-> 0]

\* the file of p holds the text of the last successful UpdateDocument(p)
Unchanged(p) == files[p] # NoFile /\ synced[p] = files[p]

\* synced after the documents in ok were updated and, if gc, a GC pass
\* over docs collected the chunks of every other document
SyncedAfter(ok, gc, docs) ==
    [p \in Paths |->
        IF gc /\ p \notin Range(docs) THEN NoFile
        ELSE IF p \in ok THEN files[p]
        ELSE synced[p]]

----------------------------------------------------------------------------
(* The operations of the store *)

Init ==
    /\ Documents = <<>>
    /\ Chunks = <<>>
    /\ MaxChunkSize = MaxChunk
    /\ files \in [Paths -> UNION { DocTexts(p) : p \in Paths }]
    /\ \A p \in Paths : files[p] \in DocTexts(p)
    /\ modified = [p \in Paths |-> TRUE]
    /\ synced = [p \in Paths |-> NoFile]
    /\ removedSinceGC = FALSE
    /\ aidda = NoRun
    /\ changes = NoCall
    /\ loop = NoLoop
    /\ straySinceGC = FALSE
    /\ writes = 0
    /\ last = Outcome("New", None)

\* AddDocument appending the document whether or not it is found
RegisterAlways(docs, path) == Append(docs, path)

\* AddDocument: the document is appended if no document has its path
Register(docs, path) ==
    IF path \in Range(docs) THEN docs ELSE Append(docs, path)

AddDocument(path, fault) ==
    LET found == path \in Range(Documents)
        docs == Register(Documents, path)
    IN  \E r \in {UpdateDocumentResult(Chunks, path, fault)} :
        /\ Documents' = docs
        /\ Chunks' = r.chunks
        /\ synced' = SyncedAfter(IF r.err THEN {} ELSE {path}, FALSE, docs)
        /\ last' = [Outcome("AddDocument", path) EXCEPT
                       !.err = r.err, !.updated = r.updated, !.sent = r.sent,
                       !.calls = <<path>>, !.unchanged = Unchanged(path),
                       !.found = found, !.failed = r.failed]
        /\ UNCHANGED <<aidda, changes, loop, MaxChunkSize, files, modified, removedSinceGC,
                       straySinceGC, writes>>

UpdateDocument(doc, fault) ==
    \E r \in {UpdateDocumentResult(Chunks, doc, fault)} :
        /\ Chunks' = r.chunks
        /\ synced' = SyncedAfter(IF r.err THEN {} ELSE {doc}, FALSE, Documents)
        /\ straySinceGC' = (straySinceGC \/ doc \notin Range(Documents))
        /\ last' = [Outcome("UpdateDocument", doc) EXCEPT
                       !.err = r.err, !.updated = r.updated, !.sent = r.sent,
                       !.calls = <<doc>>, !.unchanged = Unchanged(doc),
                       !.failed = r.failed]
        /\ UNCHANGED <<aidda, changes, loop, Documents, MaxChunkSize, files, modified,
                       removedSinceGC, writes>>

\* RemoveDocument that takes the chunks of the document with it
RemoveDocumentAndChunks(doc) ==
    /\ Documents' = RemoveDocumentFrom(Documents, doc)
    /\ Chunks' = SelectSeq(Chunks, LAMBDA c : c.Document # doc)
    /\ removedSinceGC' = removedSinceGC
    /\ last' = Outcome("RemoveDocument", doc)
    /\ UNCHANGED <<aidda, changes, loop, MaxChunkSize, files, modified, synced, straySinceGC, writes>>

RemoveDocument(doc) ==
    /\ Documents' = RemoveDocumentFrom(Documents, doc)
    /\ removedSinceGC' = (removedSinceGC \/ doc \in Range(Documents))
    /\ last' = Outcome("RemoveDocument", doc)
    /\ UNCHANGED <<aidda, changes, loop, Chunks, MaxChunkSize, files, modified, synced,
                   straySinceGC, writes>>

GC ==
    /\ Chunks' = GCChunks(Documents, Chunks)
    /\ synced' = SyncedAfter({}, TRUE, Documents)
    /\ removedSinceGC' = FALSE
    /\ straySinceGC' = FALSE
    /\ last' = [Outcome("GC", None) EXCEPT
                   !.prev = PrevOf(last),
                   !.collected = Len(Chunks) - Len(Chunks')]
    /\ UNCHANGED <<aidda, changes, loop, Documents, MaxChunkSize, files, modified, writes>>

UpdateEmbeddings(fault) ==
    \E st \in {UpdateEmbeddingsResult(Documents, Chunks, fault)} :
    LET docs == SubSeq(st.arr, 1, st.len)
    IN  /\ Documents' = docs
        /\ Chunks' = st.chunks
        /\ synced' = SyncedAfter(st.ok, st.gc, docs)
        /\ removedSinceGC' = (~st.gc /\ (removedSinceGC \/ st.removed))
        /\ straySinceGC' = (~st.gc /\ straySinceGC)
        /\ last' = [Outcome("UpdateEmbeddings", None) EXCEPT
                       !.err = st.err, !.updated = st.update, !.sent = st.sent,
                       !.calls = st.calls, !.collected = st.collected]
        /\ UNCHANGED <<aidda, changes, loop, MaxChunkSize, files, modified, writes>>

RefreshEmbeddings(fault) ==
    \E st \in {RefreshEmbeddingsResult(Documents, Chunks, fault)} :
        /\ Chunks' = st.chunks
        /\ synced' = SyncedAfter(st.ok, st.gc, Documents)
        /\ removedSinceGC' = (~st.gc /\ removedSinceGC)
        /\ straySinceGC' = (~st.gc /\ straySinceGC)
        /\ last' = [Outcome("RefreshEmbeddings", None) EXCEPT
                       !.err = st.err, !.sent = st.sent, !.calls = st.calls,
                       !.collected = st.collected]
        /\ UNCHANGED <<aidda, changes, loop, Documents, MaxChunkSize, files, modified, writes>>

----------------------------------------------------------------------------
(* The environment: the files of the documents and the store file *)

WriteFile(p, txt) ==
    /\ writes < MaxWrites
    /\ writes' = writes + 1
    /\ files' = [files EXCEPT ![p] = txt]
    /\ modified' = [modified EXCEPT ![p] = TRUE]
    /\ last' = Outcome("WriteFile", p)
    /\ UNCHANGED <<aidda, changes, loop, Documents, Chunks, MaxChunkSize, synced, removedSinceGC,
                   straySinceGC>>

DeleteFile(p) ==
    /\ writes < MaxWrites
    /\ files[p] # NoFile
    /\ writes' = writes + 1
    /\ files' = [files EXCEPT ![p] = NoFile]
    /\ modified' = [modified EXCEPT ![p] = FALSE]
    /\ last' = Outcome("DeleteFile", p)
    /\ UNCHANGED <<aidda, changes, loop, Documents, Chunks, MaxChunkSize, synced, removedSinceGC,
                   straySinceGC>>

\* The caller writes the store to the store file (Save): from now on no
\* document file is newer than the store file.
Save ==
    /\ modified' = [p \in Paths |-> FALSE]
    /\ last' = [Outcome("Save", None) EXCEPT
                   !.data = Marshal(Documents, Chunks, MaxChunkSize)]
    /\ UNCHANGED <<aidda, changes, loop, Documents, Chunks, MaxChunkSize, files, synced,
                   removedSinceGC, straySinceGC, writes>>

\* Spec: every operation of the store on two documents whose files are
\* edited and deleted between the calls.  The store file is never written,
\* so every existing file is newer than it.
Next ==
    \/ \E p \in CorePaths : \E f \in FaultsOn(p) : AddDocument(p, f)
    \/ \E p \in CorePaths : \E f \in FaultsOn(p) : UpdateDocument(p, f)
    \/ \E p \in CorePaths : RemoveDocument(p)
    \/ GC
    \/ \E f \in Faults(CorePaths) \cup {IOFault(GrokFn)} : UpdateEmbeddings(f)
    \/ \E f \in Faults(CorePaths) : RefreshEmbeddings(f)
    \/ \E p \in CorePaths : \E txt \in DocTexts(p) : WriteFile(p, txt)
    \/ \E p \in CorePaths : DeleteFile(p)

Spec == Init /\ [][Next]_vars

\* SpecUE: the refresh pass over three documents.  Documents are added,
\* their files are rewritten, touched or deleted, the store is saved, and
\* UpdateEmbeddings runs.
UETexts == { <<"a">>, <<"b">> }

\* the chunk UpdateDocument creates for a segment of a document
NewChunk(doc, text) == [Document |-> doc, Text |-> text, Embedding |-> Embed(text)]

\* The store as loaded from the store file written after AddDocument of
\* p1, p2 and p3, each file holding "a" and none touched since the save.
InitUE ==
    /\ Documents = <<"p1", "p2", "p3">>
    /\ Chunks = [i \in 1..3 |-> NewChunk(Documents[i], <<"a">>)]
    /\ MaxChunkSize = MaxChunk
    /\ files = [p \in Paths |-> <<"a">>]
    /\ modified = [p \in Paths |-> FALSE]
    /\ synced = files
    /\ removedSinceGC = FALSE
    /\ aidda = NoRun
    /\ changes = NoCall
    /\ loop = NoLoop
    /\ straySinceGC = FALSE
    /\ writes = 0
    /\ last = Outcome("Load", None)

WriteFileUE(p, txt) ==
    /\ writes < MaxUEWrites
    /\ writes' = writes + 1
    /\ files' = [files EXCEPT ![p] = txt]
    /\ modified' = [modified EXCEPT ![p] = TRUE]
    /\ last' = Outcome("WriteFile", p)
    /\ UNCHANGED <<aidda, changes, loop, Documents, Chunks, MaxChunkSize, synced, removedSinceGC,
                   straySinceGC>>

DeleteFileUE(p) ==
    /\ writes < MaxUEWrites
    /\ files[p] # NoFile
    /\ writes' = writes + 1
    /\ files' = [files EXCEPT ![p] = NoFile]
    /\ modified' = [modified EXCEPT ![p] = FALSE]
    /\ last' = Outcome("DeleteFile", p)
    /\ UNCHANGED <<aidda, changes, loop, Documents, Chunks, MaxChunkSize, synced, removedSinceGC,
                   straySinceGC>>

NextUE ==
    \/ \E p \in Paths : AddDocument(p, NoFault)
    \/ \E p \in Paths : \E txt \in UETexts : WriteFileUE(p, txt)
    \/ \E p \in Paths : DeleteFileUE(p)
    \/ Save
    \/ \E f \in Faults(Paths) \cup {IOFault(GrokFn)} : UpdateEmbeddings(f)

SpecUE == InitUE /\ [][NextUE]_vars

\* SpecDocs: three documents are added to and removed from a loaded store,
\* and their chunks collected.
NextDocs ==
    \/ \E p \in Paths : \E f \in FaultsOn(p) : AddDocument(p, f)
    \/ \E p \in Paths : RemoveDocument(p)
    \/ GC

SpecDocs == InitUE /\ [][NextDocs]_vars

----------------------------------------------------------------------------
(* SpecCE: CreateEmbeddings called on lists of up to MaxTexts texts *)

CETexts == << <<"a">>, <<"b">>, <<"a", "b">> >>

\* a list of n texts that cycles through CETexts
TextList(n) == [i \in 1..n |-> CETexts[(i % 3) + 1]]

CreateEmbeddingsCall(texts, failAt) ==
    \E ce \in {CreateEmbeddings(texts, failAt)} :
        /\ last' = [Outcome("CreateEmbeddings", None) EXCEPT
                       !.input = texts, !.err = ce.err, !.sent = ce.requests,
                       !.result = ce.embeddings]
        /\ UNCHANGED <<aidda, changes, loop, Documents, Chunks, MaxChunkSize, files, modified, synced,
                       removedSinceGC, straySinceGC, writes>>

NextCE ==
    \E n \in 0..MaxTexts : \E failAt \in 0..MaxFail :
        CreateEmbeddingsCall(TextList(n), failAt)

SpecCE == InitUE /\ [][NextCE]_vars

----------------------------------------------------------------------------
(* SpecBatch: documents of up to MaxParagraphs paragraphs, embedded in
   several requests of which the provider may fail one *)

\* a file of n paragraphs that cycle through CETexts
Paragraphs(n) == Join(TextList(n))

BatchTexts == { Paragraphs(n) : n \in {1, BatchSize, BatchSize + 1, MaxParagraphs} }

InitBatch ==
    /\ Documents = <<>>
    /\ Chunks = <<>>
    /\ MaxChunkSize = MaxChunk
    /\ files \in [Paths -> BatchTexts]
    /\ files["p2"] = Paragraphs(1)
    /\ files["p3"] = Paragraphs(1)
    /\ modified = [p \in Paths |-> TRUE]
    /\ synced = [p \in Paths |-> NoFile]
    /\ removedSinceGC = FALSE
    /\ aidda = NoRun
    /\ changes = NoCall
    /\ loop = NoLoop
    /\ straySinceGC = FALSE
    /\ writes = 0
    /\ last = Outcome("New", None)

BatchFaults(p) == {NoFault} \cup { EmbedFaultAt(p, n) : n \in 1..MaxFail }

NextBatch ==
    \/ \E f \in BatchFaults("p1") : AddDocument("p1", f)
    \/ \E f \in BatchFaults("p1") : UpdateDocument("p1", f)
    \/ AddDocument("p2", NoFault)
    \/ RemoveDocument("p1")
    \/ GC

SpecBatch == InitBatch /\ [][NextBatch]_vars

----------------------------------------------------------------------------
(* Answering a question *)

\* A similarity score dot / (sqrt(magA) * sqrt(magB)) of two vectors with
\* non-negative integer components, kept exact as the fraction
\* dot^2 / (magA * magB) in lowest terms; a zero magnitude gives 0/0 = NaN.
RECURSIVE GCD(_, _)
GCD(a, b) == IF b = 0 THEN a ELSE GCD(b, a % b)

Dot(a, b) == a[1] * b[1] + a[2] * b[2] + a[3] * b[3]

\* the score with the magnitude of b left out of the divisor
SimilarityOverA(a, b) ==
    LET dot == Dot(a, b)
        den == Dot(a, a) * Dot(a, a)
    IN  IF den = 0
        THEN [nan |-> TRUE, num |-> 0, den |-> 0]
        ELSE LET g == GCD(dot * dot, den)
             IN  [nan |-> FALSE, num |-> (dot * dot) \div g, den |-> den \div g]

Similarity(a, b) ==
    LET dot == Dot(a, b)
        den == Dot(a, a) * Dot(b, b)
    IN  IF den = 0
        THEN [nan |-> TRUE, num |-> 0, den |-> 0]
        ELSE LET g == GCD(dot * dot, den)
             IN  [nan |-> FALSE, num |-> (dot * dot) \div g, den |-> den \div g]

\* s > t on scores; every comparison with NaN is false
Greater(s, t) == ~s.nan /\ ~t.nan /\ s.num * t.den > t.num * s.den

\* sort.Slice leaving the scores in any order
SortSliceAny(scores) ==
    { p \in [1..Len(scores) -> 1..Len(scores)] :
        \A i, j \in 1..Len(scores) : p[i] = p[j] => i = j }

\* The orders sort.Slice may leave n scores in: it is not stable, so equal
\* scores come out in any order, and with a NaN among the scores the less
\* function is no ordering and the result is any permutation.
SortSlice(scores) ==
    LET n == Len(scores)
        perms == { p \in [1..n -> 1..n] : \A i, j \in 1..n : p[i] = p[j] => i = j }
    IN  IF \E i \in 1..n : scores[i].nan
        THEN perms
        ELSE { p \in perms :
                 \A i, j \in 1..n : i < j => ~Greater(scores[p[j]], scores[p[i]]) }

\* The chunks in the orders sort.Slice may leave the sims in.  sort.Slice
\* is a function of its input: the same store and query sort the same way
\* whatever K is.
Rankings(chunks, embedding) ==
    LET scores == [i \in 1..Len(chunks) |-> Similarity(embedding, chunks[i].Embedding)]
    IN  { [i \in 1..Len(chunks) |-> chunks[p[i]]] : p \in SortSlice(scores) }

\* the top K loop without its bound K
TopKAll(sims, K) == sims

\* "return the top K chunks": all of them for K = 0
TopK(sims, K) ==
    SubSeq(sims, 1, IF K = 0 THEN Len(sims) ELSE Min(K, Len(sims)))

\* SimilarChunks: the rankings it may return for K (0: all chunks)
SimilarChunks(chunks, embedding, K) ==
    { TopK(sims, K) : sims \in Rankings(chunks, embedding) }

\* The context loop of Answer from chunk i on: the chunk and a blank line
\* are appended first, the size is tested after.
RECURSIVE ContextFrom(_, _, _, _)
ContextFrom(chunks, i, context, maxSize) ==
    IF i > Len(chunks)
    THEN context
    ELSE LET c == context \o chunks[i].Text \o <<NL, NL>>
         IN  IF Len(c) + PromptTmplLen > maxSize
             THEN c
             ELSE ContextFrom(chunks, i + 1, c, maxSize)

Message(role, content) == [Role |-> role, Content |-> content]

SystemText == <<"You are a helpful assistant.">>
ReadText == <<"Great! I've read the context.">>
Replies == { <<"x">>, <<"y">> }

\* Generate that asks the question before it gives the context
GenerateQuestionFirst(question, ctxt, global, chatFail, reply1, reply2) ==
    LET system == <<Message("system", SystemText)>>
        first == Append(system, Message("user", question))
        head == IF global THEN Append(first, Message("assistant", reply1)) ELSE system
        final == head \o <<Message("user", question), Message("user", ctxt),
                           Message("assistant", ReadText)>>
        chats == IF global THEN <<first, final>> ELSE <<final>>
    IN  [chats |-> chats, first |-> IF global THEN reply1 ELSE <<>>,
         resp |-> reply2, query |-> <<>>, err |-> FALSE]

\* Generate that goes on to the final request after the first one failed
GenerateKeepsGoing(question, ctxt, global, chatFail, reply1, reply2) ==
    LET system == <<Message("system", SystemText)>>
        first == Append(system, Message("user", question))
        answered == IF global /\ chatFail # 1 THEN reply1 ELSE <<>>
        head == IF global THEN Append(first, Message("assistant", answered)) ELSE system
        final == head \o <<Message("user", ctxt), Message("assistant", ReadText),
                           Message("user", question)>>
        chats == IF global THEN <<first, final>> ELSE <<final>>
    IN  [chats |-> chats, first |-> answered,
         resp |-> IF chatFail = Len(chats) THEN <<>> ELSE reply2,
         query |-> <<>>, err |-> chatFail \in 1..Len(chats)]

\* Generate: chats are the message lists sent to the chat endpoint, in
\* order; chatFail is the number of the chat request that fails (0: none);
\* reply1 and reply2 are the provider's answers, first the answer used with
\* the global flag.  The named result query is never assigned and comes
\* back empty.
Generate(question, ctxt, global, chatFail, reply1, reply2) ==
    LET system == <<Message("system", SystemText)>>
        first == Append(system, Message("user", question))
        head == IF global THEN Append(first, Message("assistant", reply1)) ELSE system
        final == head \o <<Message("user", ctxt), Message("assistant", ReadText),
                           Message("user", question)>>
    IN  IF global /\ chatFail = 1
        THEN [chats |-> <<first>>, first |-> <<>>, resp |-> <<>>,
              query |-> <<>>, err |-> TRUE]
        ELSE LET chats == IF global THEN <<first, final>> ELSE <<final>>
                 answered == IF global THEN reply1 ELSE <<>>
             IN  IF chatFail = Len(chats)
                 THEN [chats |-> chats, first |-> answered, resp |-> <<>>,
                       query |-> <<>>, err |-> TRUE]
                 ELSE [chats |-> chats, first |-> answered, resp |-> reply2,
                       query |-> <<>>, err |-> FALSE]

\* g.Chunks sorted in place by SimilarChunks
ChunksSortedInPlace(chunks, ranked) == ranked

\* g.Chunks after SimilarChunks: the sims are a slice of their own that holds
\* pointers to the chunks, and sort.Slice orders the sims
ChunksAfterRanking(chunks, ranked) == chunks

Answer(question, global, embedFail, chatFail, reply1, reply2) ==
    /\ \E ce \in {CreateEmbeddings(<<question>>, IF embedFail THEN 1 ELSE 0)} :
          IF ce.err
          THEN /\ last' = [Outcome("Answer", None) EXCEPT
                              !.input = question, !.global = global, !.err = TRUE,
                              !.embedFail = embedFail, !.chatFail = chatFail,
                              !.sent = ce.requests]
               /\ Chunks' = Chunks
          ELSE \E ranked \in SimilarChunks(Chunks, ce.embeddings[1], 0) :
               \E context \in {ContextFrom(ranked, 1, <<>>, MaxChunkSize \div 2)} :
               \E gen \in {Generate(question, context, global, chatFail,
                                    reply1, reply2)} :
                   /\ last' = [Outcome("Answer", None) EXCEPT
                                  !.input = question, !.global = global,
                                  !.embedFail = embedFail, !.chatFail = chatFail,
                                  !.err = gen.err, !.first = gen.first,
                                  !.sent = ce.requests, !.ranked = ranked,
                                  !.context = context, !.chats = gen.chats,
                                  !.resp = gen.resp, !.query = gen.query]
                   /\ Chunks' = ChunksAfterRanking(Chunks, ranked)
    /\ UNCHANGED <<aidda, changes, loop, Documents, MaxChunkSize, files, modified, synced,
                   removedSinceGC, straySinceGC, writes>>

\* SpecAnswer: questions asked of a loaded store

\* The stores asked: p1 added with the default MaxChunkSize and three long
\* paragraphs, and stores with a small MaxChunkSize whose budget of
\* MaxChunkSize/2 - len(promptTmpl) leaves room for no, one or all chunks.
AnswerStores ==
    { [max |-> DefaultMaxChunkSize,
       text |-> Join(<<Rep("a", LongParagraph), Rep("b", LongParagraph),
                       Rep("c", LongParagraph)>>)] }
    \cup { [max |-> m, text |-> t] :
             m \in {72, 80, 100},
             t \in { <<"a">>, Join(<<<<"a">>, <<"b">>, <<"c">>>>),
                     Join(<<<<"a", "a">>, <<"b">>>>),
                     Join(<<<<"a">>, <<"b">>, <<NL>>>>) } }

Questions == { <<"a">>, <<"b">>, <<"a", "b">> }

InitAnswer ==
    \E s \in AnswerStores :
        /\ Documents = <<"p1">>
        /\ Chunks = LET segs == chunkStrings(s.text, s.max)
                    IN  [i \in 1..Len(segs) |-> NewChunk("p1", segs[i])]
        /\ MaxChunkSize = s.max
        /\ files = [p \in Paths |-> IF p = "p1" THEN s.text ELSE NoFile]
        /\ modified = [p \in Paths |-> FALSE]
        /\ synced = files
        /\ removedSinceGC = FALSE
        /\ aidda = NoRun
        /\ changes = NoCall
    /\ loop = NoLoop
        /\ straySinceGC = FALSE
        /\ writes = 0
        /\ last = Outcome("Load", None)

NextAnswer ==
    \E question \in Questions : \E global, embedFail \in BOOLEAN :
    \E chatFail \in 0..2 : \E reply1, reply2 \in Replies :
        Answer(question, global, embedFail, chatFail, reply1, reply2)

SpecAnswer == InitAnswer /\ [][NextAnswer]_vars

----------------------------------------------------------------------------
(* SpecFrame: the operations of the store and Answer on a loaded store
   whose files may have grown since it was saved *)

FrameTexts == { <<"a">>, Join(<<<<"a">>, <<"b">>>>) }

InitFrame ==
    /\ Documents = <<"p1", "p2">>
    /\ Chunks = [i \in 1..2 |-> NewChunk(Documents[i], <<"a">>)]
    /\ MaxChunkSize = MaxChunk
    /\ files \in [Paths -> FrameTexts]
    /\ files["p3"] = <<"a">>
    /\ modified = [p \in Paths |-> files[p] # <<"a">>]
    /\ synced = [p \in Paths |-> IF p = "p3" THEN NoFile ELSE <<"a">>]
    /\ removedSinceGC = FALSE
    /\ aidda = NoRun
    /\ changes = NoCall
    /\ loop = NoLoop
    /\ straySinceGC = FALSE
    /\ writes = 0
    /\ last = Outcome("Load", None)

NextFrame ==
    \/ \E p \in CorePaths : \E f \in FaultsOn(p) : AddDocument(p, f)
    \/ \E p \in CorePaths : \E f \in FaultsOn(p) : UpdateDocument(p, f)
    \/ \E p \in CorePaths : RemoveDocument(p)
    \/ GC
    \/ \E global, embedFail \in BOOLEAN :
          Answer(<<"a">>, global, embedFail, 0, <<"x">>, <<"y">>)

SpecFrame == InitFrame /\ [][NextFrame]_vars

----------------------------------------------------------------------------
(* SpecDiff: a document of a loaded store is updated after its file was
   rewritten *)

\* Texts of one to three paragraphs; with MaxChunkSize = MaxChunk the
\* paragraph "aab" is cut into "aa" and "b".
DiffTexts ==
    LET ps == { <<"a">>, <<"b">>, <<"a", "a", "b">> }
    IN  { Join(<<p>>) : p \in ps }
        \cup { Join(<<p, q>>) : p \in ps, q \in ps }
        \cup { Join(<<<<"a">>, <<"b">>, <<"a">>>>), Join(<<<<"a">>, <<"a">>, <<"b">>>>) }

\* The store as loaded from the store file written after AddDocument of p1
\* with the text t0; the file holds t1 now.
InitDiff ==
    \E t0, t1 \in DiffTexts :
        /\ Documents = <<"p1">>
        /\ Chunks = LET segs == chunkStrings(t0, MaxChunk)
                    IN  [i \in 1..Len(segs) |-> NewChunk("p1", segs[i])]
        /\ MaxChunkSize = MaxChunk
        /\ files = [p \in Paths |-> IF p = "p1" THEN t1 ELSE NoFile]
        /\ modified = [p \in Paths |-> p = "p1" /\ t1 # t0]
        /\ synced = [p \in Paths |-> IF p = "p1" THEN t0 ELSE NoFile]
        /\ removedSinceGC = FALSE
        /\ aidda = NoRun
        /\ changes = NoCall
    /\ loop = NoLoop
        /\ straySinceGC = FALSE
        /\ writes = 0
        /\ last = Outcome("Load", None)

NextDiff ==
    \/ \E f \in FaultsOn("p1") : UpdateDocument("p1", f)
    \/ \E f \in FaultsOn("p1") : AddDocument("p1", f)
    \/ \E txt \in DiffTexts : WriteFile("p1", txt)

SpecDiff == InitDiff /\ [][NextDiff]_vars

----------------------------------------------------------------------------
(* SpecRank: FindChunks called on a loaded store *)

\* FindChunks(query, K).  ranked is what it returns; all is the order the
\* sort left the chunks in, which is what K = 0 returns for this store and
\* query.
FindChunks(query, K, embedFail) ==
    /\ \E ce \in {CreateEmbeddings(<<query>>, IF embedFail THEN 1 ELSE 0)} :
          IF ce.err
          THEN last' = [Outcome("FindChunks", None) EXCEPT
                           !.input = query, !.K = K, !.err = TRUE,
                           !.sent = ce.requests]
          ELSE \E sims \in Rankings(Chunks, ce.embeddings[1]) :
                   last' = [Outcome("FindChunks", None) EXCEPT
                               !.input = query, !.K = K, !.sent = ce.requests,
                               !.ranked = TopK(sims, K), !.all = sims]
    /\ UNCHANGED <<aidda, changes, loop, Documents, Chunks, MaxChunkSize, files, modified, synced,
                   removedSinceGC, straySinceGC, writes>>

\* The files of the stores ranked: no chunk, chunks with distinct scores,
\* with equal scores, with equal texts, and with a zero vector.
RankTexts ==
    { <<>>, <<"a">>,
      Join(<<<<"a">>, <<"a", "b">>, <<"b">>>>),
      Join(<<<<"b">>, <<"a", "b">>, <<"a">>, <<"c">>>>),
      Join(<<<<"a">>, <<"b">>, <<"a">>>>),
      Join(<<<<"a">>, <<"b">>, <<NL>>>>) }

InitRank ==
    \E t \in RankTexts :
        /\ Documents = <<"p1">>
        /\ Chunks = LET segs == chunkStrings(t, MaxChunk)
                    IN  [i \in 1..Len(segs) |-> NewChunk("p1", segs[i])]
        /\ MaxChunkSize = MaxChunk
        /\ files = [p \in Paths |-> IF p = "p1" THEN t ELSE NoFile]
        /\ modified = [p \in Paths |-> FALSE]
        /\ synced = files
        /\ removedSinceGC = FALSE
        /\ aidda = NoRun
        /\ changes = NoCall
    /\ loop = NoLoop
        /\ straySinceGC = FALSE
        /\ writes = 0
        /\ last = Outcome("Load", None)

NextRank ==
    \E query \in Questions : \E K \in 0..MaxK : \E embedFail \in BOOLEAN :
        FindChunks(query, K, embedFail)

SpecRank == InitRank /\ [][NextRank]_vars

----------------------------------------------------------------------------
(* SpecSave: the store is built, saved and loaded again *)

\* Load(r), r holding the data the last Save wrote; writes counts the loads
Load ==
    /\ last.op = "Save"
    /\ writes < MaxLoads
    /\ writes' = writes + 1
    /\ Documents' = last.data.Documents
    /\ Chunks' = last.data.Chunks
    /\ MaxChunkSize' = last.data.MaxChunkSize
    /\ last' = Outcome("Load", None)
    /\ UNCHANGED <<aidda, changes, loop, files, modified, synced, removedSinceGC, straySinceGC>>

\* The files of SpecSave: ASCII text, UTF-8 text with a two-byte character
\* inside a chunk and across the cut between two chunks, and Latin-1 text.
SaveTexts ==
    { <<"a">>, <<Lead, Cont>>, <<"a", Lead, Cont>>, <<"a", "a", Lead, Cont>>,
      <<"a", NL, NL, Latin1>> }

InitSave ==
    /\ Documents = <<>>
    /\ Chunks = <<>>
    /\ MaxChunkSize = MaxChunk
    /\ files \in [Paths -> SaveTexts]
    /\ files["p3"] = <<"a">>
    /\ modified = [p \in Paths |-> TRUE]
    /\ synced = [p \in Paths |-> NoFile]
    /\ removedSinceGC = FALSE
    /\ aidda = NoRun
    /\ changes = NoCall
    /\ loop = NoLoop
    /\ straySinceGC = FALSE
    /\ writes = 0
    /\ last = Outcome("New", None)

NextSave ==
    \/ \E p \in CorePaths : AddDocument(p, NoFault)
    \/ \E p \in CorePaths : RemoveDocument(p)
    \/ GC
    \/ Save
    \/ Load

SpecSave == InitSave /\ [][NextSave]_vars

----------------------------------------------------------------------------
(* SpecChunk: chunkStrings called on the files of a store *)

ChunkTexts == UNION { [1..n -> {"a", "b", NL}] : n \in 0..MaxTextLen }

\* g.chunkStrings(doc): the segments of the file, or the error of ReadFile
ChunkStringsCall(doc) ==
    /\ last' = IF files[doc] = NoFile
               THEN [Outcome("chunkStrings", doc) EXCEPT !.err = TRUE]
               ELSE [Outcome("chunkStrings", doc) EXCEPT
                        !.input = files[doc],
                        !.result = chunkStrings(files[doc], MaxChunkSize)]
    /\ UNCHANGED <<aidda, changes, loop, Documents, Chunks, MaxChunkSize, files, modified, synced,
                   removedSinceGC, straySinceGC, writes>>

InitChunk ==
    /\ Documents = <<>>
    /\ Chunks = <<>>
    /\ MaxChunkSize \in 1..MaxSize
    /\ \E t \in ChunkTexts :
          files = [p \in Paths |-> IF p = "p1" THEN t ELSE NoFile]
    /\ modified = [p \in Paths |-> FALSE]
    /\ synced = [p \in Paths |-> NoFile]
    /\ removedSinceGC = FALSE
    /\ aidda = NoRun
    /\ changes = NoCall
    /\ loop = NoLoop
    /\ straySinceGC = FALSE
    /\ writes = 0
    /\ last = Outcome("New", None)

NextChunk == \E doc \in Paths : ChunkStringsCall(doc)

SpecChunk == InitChunk /\ [][NextChunk]_vars

----------------------------------------------------------------------------
(* SpecSim: Similarity called on pairs of vectors *)

Vectors == [1..3 -> 0..MaxComponent]

\* Similarity(a, b) on the pair of vectors in input; the score goes to result
SimilarityCall ==
    /\ last' = [Outcome("Similarity", None) EXCEPT
                   !.input = last.input,
                   !.result = <<Similarity(last.input[1], last.input[2])>>]
    /\ UNCHANGED <<aidda, changes, loop, Documents, Chunks, MaxChunkSize, files, modified, synced,
                   removedSinceGC, straySinceGC, writes>>

InitSim ==
    /\ Documents = <<>>
    /\ Chunks = <<>>
    /\ MaxChunkSize = DefaultMaxChunkSize
    /\ files = [p \in Paths |-> NoFile]
    /\ modified = [p \in Paths |-> FALSE]
    /\ synced = [p \in Paths |-> NoFile]
    /\ removedSinceGC = FALSE
    /\ aidda = NoRun
    /\ changes = NoCall
    /\ loop = NoLoop
    /\ straySinceGC = FALSE
    /\ writes = 0
    /\ \E a, b \in Vectors : last = [Outcome("New", None) EXCEPT !.input = <<a, b>>]

NextSim == SimilarityCall

SpecSim == InitSim /\ [][NextSim]_vars

----------------------------------------------------------------------------
(* SpecAidda: the subcommand loop of aidda.Do *)

\* The subcommands of Do; "bogus" stands for every other word.
Subcommands == {"init", "commit", "generate", "test", "auto"}
Words == Subcommands \cup {"bogus"}

\* An output file of the prompt, against the prompt file: it does not
\* exist, or its mtime is not after the prompt file's, or it is.
OutStates == {"missing", "older", "newer"}

\* the loop over p.Out that sets commitNeeded, taking no missing file into
\* account
CommitNeededOnlyNewer(out) == \E k \in 1..Len(out) : out[k] = "newer"

\* the loop over p.Out of case "auto": commitNeeded is set at the first
\* output file that is missing or newer than the prompt file
CommitNeeded(out) ==
    FirstIndex(out, LAMBDA o : o = "missing" \/ o = "newer") # 0

\* The state of Do when it enters its loop.  orig is the argument list it
\* was called with, args the list the loop ranges over, i the position of
\* the loop (from 1), ran the positions whose subcommand has run, decided
\* what each "auto" appended and the output files it saw; zero says that
\* the mtime of the prompt file is the zero time.
InitAidda ==
    /\ Documents = <<>>
    /\ Chunks = <<>>
    /\ MaxChunkSize = DefaultMaxChunkSize
    /\ files = [p \in Paths |-> NoFile]
    /\ modified = [p \in Paths |-> FALSE]
    /\ synced = [p \in Paths |-> NoFile]
    /\ removedSinceGC = FALSE
    /\ straySinceGC = FALSE
    /\ writes = 0
    /\ changes = NoCall
    /\ loop = NoLoop
    /\ last = Outcome("New", None)
    /\ \E n \in 0..MaxArgs : \E m \in 0..MaxOut :
       \E args \in [1..n -> Words] : \E out \in [1..m -> OutStates] :
       \E zero \in BOOLEAN :
          aidda = [status |-> "running", orig |-> args, args |-> args, i |-> 1,
                   ran |-> <<>>, decided |-> <<>>, out |-> out, zero |-> zero]

\* the loop is at a subcommand cmd
At(cmd) ==
    /\ aidda.status = "running"
    /\ aidda.i <= Len(aidda.args)
    /\ aidda.args[aidda.i] = cmd

\* the subcommand at i has run; the loop goes on
Ran(a) == [a EXCEPT !.ran = Append(@, a.i), !.i = @ + 1]

\* the subcommand at i has run and failed: Ck panics and Do returns the error
Failed(a) == [a EXCEPT !.ran = Append(@, a.i), !.status = "failed"]

Frame == UNCHANGED <<Documents, Chunks, MaxChunkSize, files, modified, synced,
                     removedSinceGC, straySinceGC, writes, last, changes, loop>>

\* case "init": nothing to do
StepInit ==
    /\ At("init")
    /\ aidda' = Ran(aidda)
    /\ Frame

\* case "commit": commit(g), which may fail
StepCommit(ok) ==
    /\ At("commit")
    /\ aidda' = IF ok THEN Ran(aidda) ELSE Failed(aidda)
    /\ Frame

\* case "generate": getChanges, which may fail; it writes the output files
\* that the response holds
StepGenerate(ok, written) ==
    /\ At("generate")
    /\ aidda' = IF ok
                THEN [Ran(aidda) EXCEPT
                        !.out = [k \in 1..Len(aidda.out) |->
                                    IF k \in written THEN "newer" ELSE aidda.out[k]]]
                ELSE Failed(aidda)
    /\ Frame

\* case "test": runTest, which may fail
StepTest(ok) ==
    /\ At("test")
    /\ aidda' = IF ok THEN Ran(aidda) ELSE Failed(aidda)
    /\ Frame

\* case "auto": ok is false when a Stat or getPrompt fails
StepAuto(ok) ==
    /\ At("auto")
    /\ aidda' = IF ~ok \/ aidda.zero
                THEN Failed(aidda)
                ELSE LET cmd == IF CommitNeeded(aidda.out) THEN "commit" ELSE "generate"
                     IN  [Ran(aidda) EXCEPT
                            !.args = Append(@, cmd),
                            !.decided = Append(@, [by |-> aidda.i, cmd |-> cmd,
                                                   out |-> aidda.out])]
    /\ Frame

\* default: PrintUsageAndExit
StepDefault ==
    /\ aidda.status = "running"
    /\ aidda.i <= Len(aidda.args)
    /\ aidda.args[aidda.i] \notin Subcommands
    /\ aidda' = [aidda EXCEPT !.status = "exited"]
    /\ Frame

\* the loop condition i < len(args) fails: Do returns nil
DoReturn ==
    /\ aidda.status = "running"
    /\ aidda.i > Len(aidda.args)
    /\ aidda' = [aidda EXCEPT !.status = "returned"]
    /\ Frame

NextAidda ==
    \/ StepInit
    \/ \E ok \in BOOLEAN : StepCommit(ok)
    \/ \E ok \in BOOLEAN : \E written \in SUBSET (1..MaxOut) : StepGenerate(ok, written)
    \/ \E ok \in BOOLEAN : StepTest(ok)
    \/ \E ok \in BOOLEAN : StepAuto(ok)
    \/ StepDefault
    \/ DoReturn

SpecAidda == InitAidda /\ [][NextAidda]_vars

\* Do is a sequential function: a loop that can go on does go on
SpecAiddaLive == SpecAidda /\ WF_vars(NextAidda)

----------------------------------------------------------------------------
(* SpecDots: getChanges from "Querying GPT..." on, with its goroutine that
   prints dots *)

\* main is where getChanges is: waiting for SendWithFiles ("query"), at the
\* send on stopDots ("stop"), at close(stopDots), at the "got response"
\* message, at ExtractFiles, at the two WriteFile calls, or back in its
\* caller ("returned", or "failed" after a Ck).  dots is where the goroutine
\* is: at its select, asleep, about to print, or returned.  printed counts
\* the dots (up to MaxDots), said tells that "got response" is out, late that
\* a dot came after it, and signalled that a value went over stopDots.
InitDots ==
    /\ Documents = <<>>
    /\ Chunks = <<>>
    /\ MaxChunkSize = DefaultMaxChunkSize
    /\ files = [p \in Paths |-> NoFile]
    /\ modified = [p \in Paths |-> FALSE]
    /\ synced = [p \in Paths |-> NoFile]
    /\ removedSinceGC = FALSE
    /\ straySinceGC = FALSE
    /\ writes = 0
    /\ last = Outcome("New", None)
    /\ aidda = NoRun
    /\ changes = [main |-> "query", dots |-> "select", printed |-> 0,
                  said |-> FALSE, late |-> FALSE, signalled |-> FALSE,
                  closed |-> FALSE]
    /\ loop = NoLoop

FrameDots == UNCHANGED <<Documents, Chunks, MaxChunkSize, files, modified, synced,
                         removedSinceGC, straySinceGC, writes, last, aidda, loop>>

\* a step of getChanges from from to to, or to the Ck that ends it
MainStep(from, ok, to) ==
    /\ changes.main = from
    /\ changes' = [changes EXCEPT !.main = IF ok THEN to ELSE "failed"]
    /\ FrameDots

\* g.SendWithFiles returns, and Ck(err)
SendWithFiles(ok) == MainStep("query", ok, "stop")

\* stopDots <- true meets the goroutine's case <-stopDots: the channel has
\* no buffer, so the send waits for the goroutine to be at its select
StopDots ==
    /\ changes.main = "stop"
    /\ changes.dots = "select"
    /\ changes' = [changes EXCEPT !.main = "close", !.dots = "returned",
                                  !.signalled = TRUE]
    /\ FrameDots

\* close(stopDots)
CloseStopDots ==
    /\ changes.main = "close"
    /\ changes' = [changes EXCEPT !.main = "message", !.closed = TRUE]
    /\ FrameDots

\* Pf(" got response in %s\n", elapsed)
GotResponse ==
    /\ changes.main = "message"
    /\ changes' = [changes EXCEPT !.main = "extract", !.said = TRUE]
    /\ FrameDots

\* core.ExtractFiles, and Ck(err)
ExtractFiles(ok) == MainStep("extract", ok, "response")

\* the response is written to .aidda/response, and Ck(err)
WriteResponse(ok) == MainStep("response", ok, "commitmsg")

\* the commit message is written, and getChanges returns
WriteCommitMsg(ok) == MainStep("commitmsg", ok, "returned")

\* the select of the goroutine finds no sender on stopDots and the channel
\* open: default
SelectDefault ==
    /\ changes.dots = "select"
    /\ changes.main # "stop"
    /\ ~changes.closed
    /\ changes' = [changes EXCEPT !.dots = "sleep"]
    /\ FrameDots

\* time.Sleep(1 * time.Second) is over
Slept ==
    /\ changes.dots = "sleep"
    /\ changes' = [changes EXCEPT !.dots = "print"]
    /\ FrameDots

\* fmt.Print(".")
PrintDot ==
    /\ changes.dots = "print"
    /\ changes' = [changes EXCEPT !.dots = "select",
                                  !.printed = Min(@ + 1, MaxDots),
                                  !.late = @ \/ changes.said]
    /\ FrameDots

MainNext ==
    \/ \E ok \in BOOLEAN : SendWithFiles(ok)
    \/ StopDots
    \/ CloseStopDots
    \/ GotResponse
    \/ \E ok \in BOOLEAN : ExtractFiles(ok)
    \/ \E ok \in BOOLEAN : WriteResponse(ok)
    \/ \E ok \in BOOLEAN : WriteCommitMsg(ok)

DotsNext ==
    \/ SelectDefault
    \/ Slept
    \/ PrintDot

NextDots == MainNext \/ DotsNext

SpecDots == InitDots /\ [][NextDots]_vars

\* both goroutines are scheduled, and SendWithFiles returns
SpecDotsLive == SpecDots /\ WF_vars(MainNext) /\ WF_vars(DotsNext)

----------------------------------------------------------------------------
(* SpecSlice: the loops of chunkStrings, one iteration at a time, on a store
   whose MaxChunkSize was read from the store file *)

SliceTexts == { t \in ChunkTexts : Len(t) <= MaxSliceText }

\* The store was loaded: json.Unmarshal sets MaxChunkSize to the number the
\* store file holds, 0 included.  chunkStrings has read the file of p1 and
\* split it into paragraphs.
InitSlice ==
    \E txt \in SliceTexts :
        /\ Documents = <<"p1">>
        /\ Chunks = <<>>
        /\ MaxChunkSize \in 0..MaxSize
        /\ files = [p \in Paths |-> IF p = "p1" THEN txt ELSE NoFile]
        /\ modified = [p \in Paths |-> FALSE]
        /\ synced = [p \in Paths |-> NoFile]
        /\ removedSinceGC = FALSE
        /\ straySinceGC = FALSE
        /\ writes = 0
        /\ last = Outcome("Load", None)
        /\ aidda = NoRun
        /\ changes = NoCall
        /\ loop = [pc |-> "range", paragraphs |-> SplitParagraphs(txt),
                   paragraph |-> <<>>, c |-> <<>>]

FrameSlice == UNCHANGED <<Documents, Chunks, MaxChunkSize, files, modified, synced,
                          removedSinceGC, straySinceGC, writes, last, aidda,
                          changes>>

\* c = append(c, s); of a result of MaxSegments segments the model keeps
\* those
AppendSegment(c, s) == IF Len(c) < MaxSegments THEN Append(c, s) ELSE c

\* for _, paragraph := range paragraphs: the next paragraph, or the return
RangeParagraphs ==
    /\ loop.pc = "range"
    /\ loop' = IF loop.paragraphs = <<>>
               THEN [loop EXCEPT !.pc = "returned"]
               ELSE [loop EXCEPT !.pc = "test",
                                 !.paragraph = Head(loop.paragraphs),
                                 !.paragraphs = Tail(loop.paragraphs)]
    /\ FrameSlice

\* for len(paragraph) > 0
TestParagraph ==
    /\ loop.pc = "test"
    /\ loop' = [loop EXCEPT !.pc = IF Len(loop.paragraph) > 0
                                   THEN "slice" ELSE "range"]
    /\ FrameSlice

\* the body of the inner loop
SliceStep ==
    /\ loop.pc = "slice"
    /\ loop' = IF Len(loop.paragraph) > MaxChunkSize
               THEN [loop EXCEPT
                       !.pc = "test",
                       !.c = AppendSegment(@, SubSeq(loop.paragraph, 1, MaxChunkSize)),
                       !.paragraph = SubSeq(@, MaxChunkSize + 1, Len(@))]
               ELSE [loop EXCEPT
                       !.pc = "test",
                       !.c = AppendSegment(@, loop.paragraph),
                       !.paragraph = <<>>]
    /\ FrameSlice

NextSlice ==
    \/ RangeParagraphs
    \/ TestParagraph
    \/ SliceStep

SpecSlice == InitSlice /\ [][NextSlice]_vars

\* the call keeps running
SpecSliceLive == SpecSlice /\ WF_vars(NextSlice)

----------------------------------------------------------------------------
(* Properties of the chunk store *)

ChunksOf(doc) == OldChunks(Chunks, doc)

\* C1: re-running UpdateDocument (directly or through AddDocument) on a
\* document whose file holds the text of its last successful update, none
\* of whose chunks was collected since, is a no-op: nothing is sent to the
\* embedding client, no chunk is appended, updated is false and the chunk
\* sequence is the same before and after.
C1_RerunIsNoOp ==
    [][ (last'.op \in {"UpdateDocument", "AddDocument"} /\ last'.unchanged)
            => /\ Chunks' = Chunks
               /\ last'.sent = <<>>
               /\ ~last'.updated ]_vars

\* a re-run of UpdateDocument on an unchanged document that has chunks,
\* two of them with the same text
C1_Witness ==
    /\ last.op = "UpdateDocument"
    /\ last.unchanged
    /\ ~last.err
    /\ Len(ChunksOf(last.doc)) >= 2
    /\ ChunksOf(last.doc)[1].Text = ChunksOf(last.doc)[2].Text

\* C2: after RemoveDocument(d) followed by GC no chunk of d is left, and the
\* chunks whose document is still in the store are the same, in the same
\* order, as before the GC.
C2_RemoveThenGC ==
    [][ (last.op = "RemoveDocument" /\ last'.op = "GC")
            => /\ \A i \in 1..Len(Chunks') : Chunks'[i].Document # last.doc
               /\ SelectSeq(Chunks', LAMBDA c : c.Document \in Range(Documents'))
                    = SelectSeq(Chunks, LAMBDA c : c.Document \in Range(Documents)) ]_vars

\* a GC right after a RemoveDocument that collected chunks and kept others
C2_Witness ==
    /\ last.op = "GC"
    /\ last.prev.op = "RemoveDocument"
    /\ last.collected > 0
    /\ Chunks # <<>>

AllChunksReferenced ==
    \A i \in 1..Len(Chunks) : Chunks[i].Document \in Range(Documents)

\* C3 as stated: every chunk's document is in the store unless a document
\* was removed with no GC since.
C3_Original == ~removedSinceGC => AllChunksReferenced

\* C3, amended: every chunk's document is in the store unless, with no GC
\* since, a document was removed or UpdateDocument was called on a document
\* that is not in the store.
C3_ChunksReferenced ==
    (~removedSinceGC /\ ~straySinceGC) => AllChunksReferenced

\* a GC pass has collected chunks and left others, all of them referenced
C3_Witness ==
    /\ ~removedSinceGC
    /\ ~straySinceGC
    /\ last.op \in {"GC", "UpdateEmbeddings", "RefreshEmbeddings"}
    /\ last.collected > 0
    /\ Chunks # <<>>

\* C4 as stated: no two chunks of one document have the same text.
C4_NoDuplicateText ==
    \A i, j \in 1..Len(Chunks) :
        (i < j /\ Chunks[i].Document = Chunks[j].Document)
            => Chunks[i].Text # Chunks[j].Text

\* C8 as stated: after UpdateDocument(d) followed by GC every chunk of d has
\* a text of d's current segmentation.
C8_OrphansReclaimed ==
    (last.op = "GC" /\ last.prev.op = "UpdateDocument")
        => \A i \in 1..Len(Chunks) :
              Chunks[i].Document = last.prev.doc
                  => Chunks[i].Text \in
                        Range(chunkStrings(files[last.prev.doc], MaxChunkSize))

\* C9 as stated: a successful UpdateDocument sends exactly the candidate
\* segments whose text no existing chunk of the document has, in candidate
\* order, and leaves every existing chunk as it was.
C9_SendsOnlyUnmatched ==
    [][ (last'.op = "UpdateDocument" /\ ~last'.err)
            => /\ Flatten(last'.sent)
                    = SelectSeq(chunkStrings(files[last'.doc], MaxChunkSize),
                        LAMBDA s : \A i \in 1..Len(Chunks) :
                            ~(Chunks[i].Document = last'.doc /\ Chunks[i].Text = s))
               /\ SubSeq(Chunks', 1, Len(Chunks)) = Chunks ]_vars

NoDuplicatePaths(docs) ==
    \A i, j \in 1..Len(docs) : docs[i] = docs[j] => i = j

\* C14: AddDocument(p) called again, p being in the store and its file
\* holding the text of its last successful update, leaves the document list
\* as it was with one entry for p, adds no chunk and requests no embedding;
\* and no step leaves two document entries with the same path.
C14_AddIdempotent ==
    [][ /\ NoDuplicatePaths(Documents')
        /\ (last'.op = "AddDocument" /\ last'.found /\ last'.unchanged)
              => /\ Documents' = Documents
                 /\ Cardinality({ i \in 1..Len(Documents') :
                                    Documents'[i] = last'.doc }) = 1
                 /\ Chunks' = Chunks
                 /\ last'.sent = <<>> ]_vars

\* AddDocument was called again on the second of two documents, which has
\* chunks, and returned without error
C14_Witness ==
    /\ last.op = "AddDocument"
    /\ last.found
    /\ last.unchanged
    /\ ~last.err
    /\ Len(Documents) = 2
    /\ Documents[2] = last.doc
    /\ ChunksOf(last.doc) # <<>>

\* C15: RemoveDocument(d) leaves the chunk list as it was and takes from
\* the document list the entry with d's path and no other; the other
\* entries keep their order.
C15_RemoveOnlyEntry ==
    [][ last'.op = "RemoveDocument"
            => /\ Chunks' = Chunks
               /\ Documents' = SelectSeq(Documents, LAMBDA d : d # last'.doc) ]_vars

\* the second of three documents was removed, the first and the third
\* are left in their order, and the chunks of all three are in the store
C15_Witness ==
    /\ last.op = "RemoveDocument"
    /\ last.doc = "p2"
    /\ Documents = <<"p1", "p3">>
    /\ removedSinceGC
    /\ \A p \in Paths : ChunksOf(p) # <<>>

\* C16: when the provider fails a request during UpdateDocument (called
\* directly or by AddDocument), the call returns an error and the chunk list
\* is as before the call; and every chunk of the store carries the
\* provider's vector for its own text.
C16_FailedUpdateCommitsNothing ==
    [][ /\ (last'.op \in {"UpdateDocument", "AddDocument"} /\ last'.failed)
              => last'.err /\ Chunks' = Chunks
        /\ \A i \in 1..Len(Chunks') :
              Chunks'[i].Embedding = Embed(Chunks'[i].Text) ]_vars

\* UpdateDocument failed at its third request, after two requests of 100
\* segments were answered, in a store that holds chunks of another document
C16_Witness ==
    /\ last.op = "UpdateDocument"
    /\ last.failed
    /\ last.err
    /\ Len(last.sent) = 3
    /\ Len(last.sent[1]) = BatchSize
    /\ ChunksOf(last.doc) = <<>>
    /\ Chunks # <<>>

\* C20: for every text and every MaxChunkSize >= 1, every segment that
\* chunkStrings produces has at most MaxChunkSize characters (and at least
\* one).
C20_SegmentsWithinMax ==
    (last.op = "chunkStrings" /\ ~last.err /\ MaxChunkSize >= 1)
        => \A i \in 1..Len(last.result) :
               Len(last.result[i]) \in 1..MaxChunkSize

\* a paragraph longer than twice MaxChunkSize was cut into three segments,
\* after a paragraph that fitted
C20_Witness ==
    /\ last.op = "chunkStrings"
    /\ ~last.err
    /\ MaxChunkSize = 1
    /\ last.input = <<"b", NL, NL, "a", "a">>
    /\ Len(last.result) = 3

\* the number of segments a paragraph of n characters is cut into
SegmentsOf(n, max) == (n + max - 1) \div max

\* the number of segments that the paragraphs before paragraph i are cut into
RECURSIVE SegmentsBefore(_, _, _)
SegmentsBefore(paragraphs, i, max) ==
    IF i <= 1 THEN 0
    ELSE SegmentsBefore(paragraphs, i - 1, max)
            + SegmentsOf(Len(paragraphs[i - 1]), max)

\* C21: chunkStrings loses and duplicates nothing: no segment is empty; the
\* segments come paragraph by paragraph in document order, and those of one
\* paragraph concatenated in order are that paragraph; an empty paragraph
\* gives no segment and a paragraph of at most MaxChunkSize characters
\* exactly one.
C21_NothingLost ==
    (last.op = "chunkStrings" /\ ~last.err)
        => LET paragraphs == SplitParagraphs(last.input)
               n == Len(paragraphs)
               Segments(i) ==
                   SubSeq(last.result,
                          SegmentsBefore(paragraphs, i, MaxChunkSize) + 1,
                          SegmentsBefore(paragraphs, i + 1, MaxChunkSize))
           IN  /\ \A k \in 1..Len(last.result) : last.result[k] # <<>>
               /\ Len(last.result) = SegmentsBefore(paragraphs, n + 1, MaxChunkSize)
               /\ \A i \in 1..n :
                     /\ Flatten(Segments(i)) = paragraphs[i]
                     /\ paragraphs[i] = <<>> => Segments(i) = <<>>
                     /\ Len(paragraphs[i]) \in 1..MaxChunkSize
                            => Segments(i) = <<paragraphs[i]>>

\* an empty paragraph, a paragraph that fits and one cut in two
C21_Witness ==
    /\ last.op = "chunkStrings"
    /\ ~last.err
    /\ MaxChunkSize = 1
    /\ last.input = <<NL, NL, "b", NL, NL, "a", "b">>
    /\ last.result = << <<"b">>, <<"a">>, <<"b">> >>

\* s is the beginning of t
IsPrefix(s, t) == Len(s) <= Len(t) /\ SubSeq(t, 1, Len(s)) = s

\* the chunk belongs to a document of the store
Referenced(c) == c.Document \in Range(Documents)

SameSegments(s, t) ==
    /\ Len(s) = Len(t)
    /\ \A i \in 1..Len(t) :
          Cardinality({ k \in 1..Len(s) : s[k] = t[i] })
              = Cardinality({ k \in 1..Len(t) : t[k] = t[i] })

\* the file of p holds the segments of the last successful UpdateDocument(p)
\* in another order
Reordered(p) ==
    /\ files[p] # NoFile
    /\ synced[p] # NoFile
    /\ files[p] # synced[p]
    /\ SameSegments(chunkStrings(files[p], MaxChunkSize),
                    chunkStrings(synced[p], MaxChunkSize))

\* C26: the diff of UpdateDocument is by text, not by position: when the
\* file holds the segments of the last update in another order,
\* UpdateDocument sends no embedding request, appends no chunk and returns
\* updated = false.
C26_ReorderIsNoOp ==
    [][(last'.op \in {"UpdateDocument", "AddDocument"} /\ Reordered(last'.doc))
          => /\ last'.sent = <<>>
             /\ Chunks' = Chunks
             /\ ~last'.updated
             /\ last'.err => ~last'.failed]_vars

\* UpdateDocument found nothing new in a file whose three segments "b",
\* "aa", "b" are stored in the order "aa", "b", "b"
C26_Witness ==
    /\ last.op = "UpdateDocument"
    /\ ~last.err
    /\ ~last.unchanged
    /\ ~last.updated
    /\ files["p1"] = Join(<<<<"b">>, <<"a", "a", "b">>>>)
    /\ Chunks = [i \in 1..3 |-> NewChunk("p1", IF i = 1 THEN <<"a", "a">> ELSE <<"b">>)]

----------------------------------------------------------------------------
(* Properties of the refresh pass *)

\* C6 as stated: after UpdateEmbeddings returns without error no document
\* whose file is missing is left in the document list.
C6_MissingRemoved ==
    (last.op = "UpdateEmbeddings" /\ ~last.err)
        => \A d \in Range(Documents) : files[d] # NoFile

\* C7 as stated: a successful UpdateEmbeddings passes every document of the
\* store whose file exists and is newer than the store file to UpdateDocument.
C7_ModifiedUpdated ==
    [][ (last'.op = "UpdateEmbeddings" /\ ~last'.err)
            => \A d \in Range(Documents) :
                  (files[d] # NoFile /\ modified[d]) => d \in Range(last'.calls) ]_vars

\* C22: UpdateEmbeddings returns true exactly when the store changed during
\* the call: its result is true if and only if the document list or the
\* chunk list after the call differs from the one before.
C22_UpdateIffChanged ==
    [][(last'.op = "UpdateEmbeddings" /\ ~last'.err)
          => (last'.updated <=> (Documents' # Documents \/ Chunks' # Chunks))]_vars

\* C27: a filesystem or embedding failure during UpdateEmbeddings aborts
\* the whole update: the call returns an error and leaves the document list
\* and the chunk list as they were before the call.
C27_FailedPassCommitsNothing ==
    [][(last'.op = "UpdateEmbeddings" /\ last'.err)
          => (Documents' = Documents /\ Chunks' = Chunks)]_vars

\* the file of d exists and was not written after the store file
Untouched(d) == files[d] # NoFile /\ ~modified[d]

\* C28: UpdateEmbeddings leaves alone every document whose file exists and
\* is not newer than the store file: the document stays in the document
\* list, is not passed to UpdateDocument (so it is neither chunked again nor
\* the cause of an embedding request), and its chunks are those of before.
C28_UntouchedLeftAlone ==
    [][last'.op = "UpdateEmbeddings"
          => \A d \in Range(Documents) :
                Untouched(d)
                    => /\ d \in Range(Documents')
                       /\ d \notin Range(last'.calls)
                       /\ SelectSeq(Chunks', LAMBDA c : c.Document = d)
                             = SelectSeq(Chunks, LAMBDA c : c.Document = d)]_vars

\* a pass that removed one document and passed another to UpdateDocument
\* left the third, whose file is older than the store file, alone
C28_Witness ==
    /\ last.op = "UpdateEmbeddings"
    /\ ~last.err
    /\ last.updated
    /\ Len(last.calls) = 1
    /\ Len(Documents) = 2
    /\ \E d \in Range(Documents) : Untouched(d) /\ d \notin Range(last.calls)

----------------------------------------------------------------------------
(* Properties of the embedding client *)

\* C10: CreateEmbeddings on n texts, when no request fails, issues exactly
\* ceil(n/100) requests (none for n = 0), each with at most 100 inputs, which
\* together are the inputs in input order, and returns n vectors, vector i
\* being the provider's vector for input i.
C10_Batches ==
    (last.op = "CreateEmbeddings" /\ ~last.err)
        => LET n == Len(last.input)
           IN  /\ Len(last.sent) = (n + 99) \div 100
               /\ \A r \in 1..Len(last.sent) :
                     Len(last.sent[r]) >= 1 /\ Len(last.sent[r]) <= 100
               /\ Flatten(last.sent) = last.input
               /\ Len(last.result) = n
               /\ \A i \in 1..n : last.result[i] = Embed(last.input[i])

\* 250 inputs went out as requests of 100, 100 and 50
C10_Witness ==
    /\ last.op = "CreateEmbeddings"
    /\ ~last.err
    /\ Len(last.input) = 250
    /\ Len(last.sent) = 3
    /\ Len(last.sent[1]) = 100
    /\ Len(last.sent[2]) = 100
    /\ Len(last.sent[3]) = 50
    /\ Len(last.result) = 250

----------------------------------------------------------------------------
(* Properties of Answer *)

\* C5: the context Answer assembles satisfies
\* len(context) + len(promptTmpl) <= MaxChunkSize/2; a chunk that would
\* push the total past that budget is left out entirely.
C5_ContextWithinBudget ==
    (last.op = "Answer" /\ ~last.err)
        => Len(last.context) + PromptTmplLen <= MaxChunkSize \div 2

\* the final chat request of the last Answer was sent: the only request
\* without the global flag, the second with it
FinalSent ==
    /\ last.op = "Answer"
    /\ Len(last.chats) = (IF last.global THEN 2 ELSE 1)

FinalChat == last.chats[Len(last.chats)]

\* C17: the final chat request of Answer holds a system message; then, only
\* with the global flag, a user message with the question and an assistant
\* message with the answer to the first request, which held the system
\* message and the question only; then a user message with the context, the
\* canned assistant message and a user message with the question: 4
\* messages without the flag, 6 with it.
C17_FinalMessages ==
    FinalSent
        => LET msgs == FinalChat
               n == Len(msgs)
           IN  /\ n = (IF last.global THEN 6 ELSE 4)
               /\ msgs[1] = Message("system", SystemText)
               /\ last.global
                    => /\ last.chats[1] = <<Message("system", SystemText),
                                            Message("user", last.input)>>
                       /\ msgs[2] = Message("user", last.input)
                       /\ msgs[3] = Message("assistant", last.first)
               /\ msgs[n - 2] = Message("user", last.context)
               /\ msgs[n - 1] = Message("assistant", ReadText)
               /\ msgs[n] = Message("user", last.input)
               /\ \A i \in 1..n : msgs[i].Role = "system" <=> i = 1

\* an Answer with the global flag over a context of several chunks got both
\* its chat requests answered
C17_Witness ==
    /\ FinalSent
    /\ last.global
    /\ ~last.err
    /\ Len(last.ranked) >= 2
    /\ Len(last.context) > Len(last.ranked[1].Text) + 2
    /\ last.first # last.resp

\* C18: a successful Answer returns, with the chat response, a record of
\* the exact query sent to the chat endpoint: the message list of its final
\* request.
C18_QueryRecorded ==
    (FinalSent /\ ~last.err) => last.query = FinalChat

\* the chat requests an Answer call makes when none fails
ChatRequests == IF last.global THEN 2 ELSE 1

\* C19: a failure inside Answer aborts the call with an error and no later
\* remote request is made: when embedding the question fails no chat request
\* is sent, and when chat request n fails exactly n chat requests were sent,
\* so that with the global flag a failed first request is the only one.
C19_FailureAborts ==
    last.op = "Answer"
        => /\ last.embedFail
                => /\ last.err
                   /\ Len(last.sent) = 1
                   /\ last.chats = <<>>
           /\ (~last.embedFail /\ last.chatFail \in 1..ChatRequests)
                => /\ last.err
                   /\ Len(last.sent) = 1
                   /\ Len(last.chats) = last.chatFail
           /\ (~last.embedFail /\ last.chatFail \notin 1..ChatRequests)
                => /\ ~last.err
                   /\ Len(last.chats) = ChatRequests

\* an Answer with the global flag whose first chat request failed after the
\* question was embedded
C19_Witness ==
    /\ last.op = "Answer"
    /\ last.global
    /\ ~last.embedFail
    /\ last.chatFail = 1
    /\ last.err
    /\ Len(last.sent) = 1
    /\ Len(last.chats) = 1

----------------------------------------------------------------------------
(* Properties of the ranking *)

\* the scores of a chunk sequence against the last query
ScoresOf(chunks) ==
    [i \in 1..Len(chunks) |-> Similarity(Embed(last.input), chunks[i].Embedding)]

NonIncreasing(scores) ==
    \A i, j \in 1..Len(scores) : i < j => ~Greater(scores[j], scores[i])

NoNaN(scores) == \A i \in 1..Len(scores) : ~scores[i].nan

Occurrences(chunks, c) == Cardinality({ i \in 1..Len(chunks) : chunks[i] = c })

\* s holds every chunk of t exactly as often as t does
IsPermutation(s, t) ==
    /\ Len(s) = Len(t)
    /\ \A i \in 1..Len(t) : Occurrences(s, t[i]) = Occurrences(t, t[i])

\* C11 as stated: FindChunks with K = 0 returns a permutation of the chunk
\* list in which no chunk scores higher than a chunk before it.
C11_Original ==
    (last.op = "FindChunks" /\ ~last.err /\ last.K = 0)
        => /\ IsPermutation(last.ranked, Chunks)
           /\ NonIncreasing(ScoresOf(last.ranked))

\* C11, amended: FindChunks with K = 0 returns a permutation of the chunk
\* list (the empty sequence on a store without chunks), and when every
\* score is a number (no vector of magnitude zero) no chunk scores higher
\* than a chunk before it.
C11_RankedAll ==
    (last.op = "FindChunks" /\ ~last.err /\ last.K = 0)
        => /\ IsPermutation(last.ranked, Chunks)
           /\ NoNaN(ScoresOf(Chunks)) => NonIncreasing(ScoresOf(last.ranked))

\* four chunks with three different scores were ranked with K = 0
C11_Witness ==
    /\ last.op = "FindChunks"
    /\ ~last.err
    /\ last.K = 0
    /\ Len(last.ranked) = 4
    /\ NoNaN(ScoresOf(Chunks))
    /\ Greater(ScoresOf(last.ranked)[1], ScoresOf(last.ranked)[2])
    /\ Greater(ScoresOf(last.ranked)[3], ScoresOf(last.ranked)[4])
    /\ last.ranked # Chunks

\* C12 as stated: FindChunks with K = N >= 1 returns min(N, number of
\* chunks) chunks, a prefix of what K = 0 returns for the same query and
\* store, and no chunk left out scores higher than a chunk returned.
C12_Original ==
    (last.op = "FindChunks" /\ ~last.err /\ last.K >= 1)
        => LET n == Min(last.K, Len(Chunks))
           IN  /\ Len(last.ranked) = n
               /\ last.ranked = SubSeq(last.all, 1, n)
               /\ IsPermutation(last.all, Chunks)
               /\ \A i \in 1..n : \A j \in (n + 1)..Len(last.all) :
                     ~Greater(ScoresOf(last.all)[j], ScoresOf(last.all)[i])

\* C12, amended: FindChunks with K = N >= 1 returns min(N, number of
\* chunks) chunks, a prefix of what K = 0 returns for the same query and
\* store, and when every score is a number no chunk left out scores higher
\* than a chunk returned.
C12_TopN ==
    (last.op = "FindChunks" /\ ~last.err /\ last.K >= 1)
        => LET n == Min(last.K, Len(Chunks))
           IN  /\ Len(last.ranked) = n
               /\ last.ranked = SubSeq(last.all, 1, n)
               /\ IsPermutation(last.all, Chunks)
               /\ NoNaN(ScoresOf(Chunks))
                    => \A i \in 1..n : \A j \in (n + 1)..Len(last.all) :
                          ~Greater(ScoresOf(last.all)[j], ScoresOf(last.all)[i])

\* the two best of four chunks were returned, the best first, and a chunk
\* left out scores lower than both
C12_Witness ==
    /\ last.op = "FindChunks"
    /\ ~last.err
    /\ last.K = 2
    /\ Len(Chunks) = 4
    /\ Len(last.ranked) = 2
    /\ NoNaN(ScoresOf(Chunks))
    /\ Greater(ScoresOf(last.ranked)[1], ScoresOf(last.ranked)[2])
    /\ Greater(ScoresOf(last.ranked)[2], ScoresOf(last.all)[4])
    /\ last.ranked[1] # Chunks[1]

\* ranked is chunks sorted by descending score with ties left in the order
\* of chunks
IsStableRanking(ranked, chunks) ==
    LET n == Len(chunks)
        scores == ScoresOf(chunks)
    IN  /\ Len(ranked) = n
        /\ \E p \in [1..n -> 1..n] :
              /\ \A i, j \in 1..n : p[i] = p[j] => i = j
              /\ \A i \in 1..n : ranked[i] = chunks[p[i]]
              /\ \A i, j \in 1..n :
                    i < j => \/ Greater(scores[p[i]], scores[p[j]])
                             \/ /\ scores[p[i]] = scores[p[j]]
                                /\ p[i] < p[j]

\* C23: chunks with equal similarity scores come out of the ranking in
\* their store order: the ranking is the stable sort of the chunk list by
\* descending score (stated for stores without a NaN score).
C23_StableTies ==
    (last.op = "FindChunks" /\ ~last.err /\ NoNaN(ScoresOf(Chunks)))
        => IsStableRanking(last.all, Chunks)

----------------------------------------------------------------------------
(* Properties of Similarity *)

\* the score 1.0
One == [nan |-> FALSE, num |-> 1, den |-> 1]

\* == on float64 scores: false when either is NaN
FloatEq(s, t) == ~s.nan /\ ~t.nan /\ s = t

ZeroVector(a) == Dot(a, a) = 0

\* C24 as stated: for every vector a, the all-zero vector included,
\* Similarity(a, a) equals 1.0, and Similarity(a, b) equals Similarity(b, a)
\* for every pair of vectors.
C24_Original ==
    last.op = "Similarity"
        => LET a == last.input[1]
               b == last.input[2]
           IN  /\ a = b => FloatEq(last.result[1], One)
               /\ FloatEq(last.result[1], Similarity(b, a))

\* C24: for every vector a of non-zero magnitude Similarity(a, a) is 1 (in
\* exact arithmetic); with a zero-magnitude vector the score is NaN; and
\* Similarity(a, b) and Similarity(b, a) are the same score, or both NaN.
C24_SelfOneSymmetric ==
    last.op = "Similarity"
        => LET a == last.input[1]
               b == last.input[2]
           IN  /\ (a = b /\ ~ZeroVector(a)) => last.result[1] = One
               /\ last.result[1].nan <=> (ZeroVector(a) \/ ZeroVector(b))
               /\ last.result[1] = Similarity(b, a)

\* a vector that is no unit vector was compared with itself
C24_Witness ==
    /\ last.op = "Similarity"
    /\ last.input = << <<1, 2, 0>>, <<1, 2, 0>> >>
    /\ last.result = <<One>>

----------------------------------------------------------------------------
(* Properties of the store file *)

\* C13 as stated: Save followed by Load gives the same documents in the
\* same order, the same chunks (document, text, embedding) in the same
\* order and the same MaxChunkSize.
C13_SaveLoadIdentity ==
    [][ last'.op = "Load"
            => /\ Documents' = Documents
               /\ Chunks' = Chunks
               /\ MaxChunkSize' = MaxChunkSize ]_vars

----------------------------------------------------------------------------
(* Properties of aidda.Do *)

\* C29: when an output file named in the prompt does not exist, "auto"
\* schedules "generate", not "commit".
C29_MissingOutputGenerates ==
    aidda.status # "none"
        => \A j \in 1..Len(aidda.decided) :
              (\E k \in 1..Len(aidda.decided[j].out) :
                    aidda.decided[j].out[k] = "missing")
                  => aidda.decided[j].cmd = "generate"

\* the run is over: Do returned, with or without an error, or the process
\* exited
Over == aidda.status \in {"returned", "failed", "exited"}

\* the subcommand at position k has run and returned no error
Done(k) == k \in Range(aidda.ran) /\ ~(aidda.status = "failed" /\ aidda.i = k)

\* the "auto" at position k of the argument list has appended a subcommand
\* and that subcommand has run
AutoServed(k) ==
    \E j \in 1..Len(aidda.decided) :
        /\ aidda.decided[j].by = k
        /\ Len(aidda.orig) + j \in Range(aidda.ran)

Scheduled ==
    LET orig == aidda.orig
        args == aidda.args
        decided == aidda.decided
    IN  /\ Len(args) = Len(orig) + Len(decided)
        /\ SubSeq(args, 1, Len(orig)) = orig
        /\ aidda.ran = [k \in 1..Len(aidda.ran) |-> k]
        /\ \A j \in 1..Len(decided) :
              /\ decided[j].by \in 1..Len(orig)
              /\ orig[decided[j].by] = "auto"
              /\ Done(decided[j].by)
              /\ \A h \in 1..(j - 1) : decided[h].by < decided[j].by
              /\ args[Len(orig) + j] = decided[j].cmd
              /\ decided[j].cmd \in {"commit", "generate"}
              /\ decided[j].cmd = "commit"
                    <=> \E k \in 1..Len(decided[j].out) :
                           decided[j].out[k] \in {"missing", "newer"}
        /\ \A k \in 1..Len(orig) :
              (orig[k] = "auto" /\ Done(k))
                  => \E j \in 1..Len(decided) : decided[j].by = k
        /\ aidda.status = "returned" => Len(aidda.ran) = Len(args)

----------------------------------------------------------------------------
(* AddDocument that fails *)

\* C33: an AddDocument that returns an error, because the file cannot be
\* read or the embedding request fails, leaves the store as it was: the
\* document is not left in the document list and no chunk was added.
C33_FailedAddChangesNothing ==
    [][(last'.op = "AddDocument" /\ last'.err)
         => /\ Documents' = Documents
            /\ Chunks' = Chunks]_vars

----------------------------------------------------------------------------
(* Answer and the store *)

\* C32: Answer only reads the store.  Whatever the question, the flag and
\* the outcome, the document list, the chunk list (its order, texts and
\* embeddings) and MaxChunkSize are after the call what they were before.
C32_AnswerReadsOnly ==
    [][last'.op = "Answer"
         => /\ Documents' = Documents
            /\ Chunks' = Chunks
            /\ MaxChunkSize' = MaxChunkSize]_vars

\* an Answer that went through and ranked the chunks in another order than
\* the store keeps them in
C32_Witness ==
    /\ last.op = "Answer"
    /\ ~last.err
    /\ Len(last.ranked) > 1
    /\ last.ranked # Chunks

----------------------------------------------------------------------------
(* Properties of aidda.getChanges *)

\* SendWithFiles has returned, with or without an error
SendFinished == changes.main \notin {"none", "query"}

\* C31: on every path on which SendWithFiles returns, with or without an
\* error, the goroutine that prints dots is signalled and returns in the
\* end; and once "got response" is printed that goroutine has returned and
\* no dot follows.
C31_DotsStopped ==
    /\ SendFinished ~> (changes.signalled /\ changes.dots = "returned")
    /\ [](changes.main # "none"
            => (changes.said => (changes.dots = "returned" /\ ~changes.late)))

----------------------------------------------------------------------------
(* Properties of the loops of chunkStrings *)

\* C34: chunkStrings returns, with finitely many segments, on every text
\* and for every MaxChunkSize from 0 on that the store may hold, a 0 read
\* from the store file included.
C34_ChunkStringsReturns == <>(loop.pc = "returned")

====
